---- MODULE Spec2Model ----
(***************************************************************************)
(* The configuration version-control store of vps-manager                  *)
(* (src/src/vps_manager/version_control.py) together with the part of the  *)
(* manager (src/src/vps_manager/core.py) that changes the live state the   *)
(* store snapshots and restores.                                           *)
(*                                                                         *)
(* Abstractions.  A domain is the pair name/port (the other fields of      *)
(* Domain are carried through to_dict/from_dict unchanged).  The text of   *)
(* a generated NGINX config is the port it was rendered for.  The settings *)
(* mapping is one of two values.  A SHA-256 hex string is a HashLen-digit  *)
(* sequence.  datetime.now() is a counter that every commit invocation     *)
(* advances.  A store write either completes or raises and leaves the      *)
(* file as it was; reads of files the program wrote succeed.               *)
(***************************************************************************)
EXTENDS Integers, Sequences, FiniteSets, TLC

VARIABLES
    commitsFile,   \* vcs/commits.json: the commit log, a sequence of Commit
    branchesFile,  \* vcs/branches.json: a sequence of Branch
    headFile,      \* vcs/HEAD: the active branch name
    commitRecs,    \* vcs/commits/<hash>.json: hash -> Commit
    objects,       \* vcs/objects/<hash>.tar.gz: the hashes that have an archive
    tagFiles,      \* vcs/tags/<name>.json: tag name -> tag record
    present,       \* which of commits.json, branches.json and HEAD exist
    domains,       \* manager.domains
    config,        \* manager.config
    sites,         \* /etc/nginx/sites-available/<name>: text, or NoFile
    clock,         \* the instant datetime.now() returns next
    faults,        \* how many store calls have raised so far
    calls,         \* how many operations have been called so far
    invocation,    \* per process: where its commit invocation stands, its locals
    saved          \* the processes that have written commits.json, in order

vars == <<commitsFile, branchesFile, headFile, commitRecs, objects, tagFiles,
          present, domains, config, sites, clock, faults, calls, invocation,
          saved>>

-----------------------------------------------------------------------------
(* Bounds and input sets *)

MaxCalls == 4

MaxFaults == 1

HashLen == 2

MaxLimit == MaxCalls + 1

Names == {"a"}

\* the largest port number validate_port accepts
MaxPort == 65535

\* both ends of the range of valid ports
Ports == {1, MaxPort}

BranchNames == {"main", "dev"}

TagNames == {"v1"}

TagMessages == {"m1", "m2"}

NoFile == 0

None == "None"

NoBranch == "None"

EmptyName == ""

-----------------------------------------------------------------------------
(* Sequence helpers *)

\* (a variant of s[-1] for comparison: s[0])
First(s) == s[1]

\* s[-1]
Last(s) == s[Len(s)]

RECURSIVE SeqToSet(_)
SeqToSet(s) == IF s = <<>> THEN {} ELSE {Head(s)} \cup SeqToSet(Tail(s))

RECURSIVE Filter(_, _)
Filter(s, keep) ==
    IF s = <<>> THEN <<>>
    ELSE IF Head(s) \in keep THEN <<Head(s)>> \o Filter(Tail(s), keep)
         ELSE Filter(Tail(s), keep)

Reverse(s) == [i \in 1..Len(s) |-> s[Len(s) + 1 - i]]

\* Python's s[k:] for any integer k
SliceFrom(s, k) ==
    LET n == Len(s)
        start == IF k < 0 THEN (IF n + k < 0 THEN 0 ELSE n + k)
                 ELSE (IF k > n THEN n ELSE k)
    IN SubSeq(s, start + 1, n)

\* str.startswith
StartsWith(s, p) == Len(p) <= Len(s) /\ SubSeq(s, 1, Len(p)) = p

MapPut(f, k, v) == [x \in DOMAIN f \cup {k} |-> IF x = k THEN v ELSE f[x]]

EmptyMap == [x \in {} |-> 0]

-----------------------------------------------------------------------------
(* core.py: Domain *)

Domain(name, port) == [name |-> name, port |-> port]

DomainToDict(d) == [name |-> d.name, port |-> d.port]

DomainFromDict(data) == Domain(data.name, data.port)

DomainNames(ds) == {ds[i].name : i \in 1..Len(ds)}

\* generate_nginx_config: the text rendered from the template for a domain
RenderConfig(d) == d.port

-----------------------------------------------------------------------------
(* version_control.py: the store and the manager as one value *)

World ==
    [commits |-> commitsFile, branches |-> branchesFile, head |-> headFile,
     recs |-> commitRecs, objs |-> objects, tags |-> tagFiles,
     present |-> present,
     domains |-> domains, config |-> config, sites |-> sites, clock |-> clock]

Commit(hash, timestamp, tags, parent, files_changed, domains_snapshot, config_snapshot, stats) ==
    [hash |-> hash, timestamp |-> timestamp, tags |-> tags, parent |-> parent,
     files_changed |-> files_changed, domains_snapshot |-> domains_snapshot,
     config_snapshot |-> config_snapshot, stats |-> stats]

Branch(name, current_commit) == [name |-> name, current_commit |-> current_commit]

\* the store directory before the first construction: no file exists
EmptyStore ==
    [commits |-> <<>>, branches |-> <<>>, head |-> "",
     recs |-> EmptyMap, objs |-> {}, tags |-> EmptyMap, present |-> {}]

\* _init_repository: each file is written only if it does not exist
\* (a variant for comparison: every file is written anew)
InitRepositoryOverwrite(st) ==
    [st EXCEPT !.commits = <<>>,
               !.branches = <<Branch("main", <<>>)>>,
               !.head = "main",
               !.present = {"commits.json", "branches.json", "HEAD"}]

InitRepository(st) ==
    [st EXCEPT !.commits = IF "commits.json" \in st.present THEN st.commits ELSE <<>>,
               !.branches = IF "branches.json" \in st.present THEN st.branches
                            ELSE <<Branch("main", <<>>)>>,
               !.head = IF "HEAD" \in st.present THEN st.head ELSE "main",
               !.present = st.present \cup {"commits.json", "branches.json", "HEAD"}]

\* _get_current_branch
GetCurrentBranch(w) == IF "HEAD" \in w.present THEN w.head ELSE "main"

\* the digit of a digest that the snapshot text decides
RECURSIVE SumPorts(_)
SumPorts(ds) == IF ds = <<>> THEN 0 ELSE Head(ds).port + SumPorts(Tail(ds))

ContentDigit(state) ==
    (SumPorts(state.domains) + Cardinality(DOMAIN state.nginx_configs)
       + (IF state.config = "{}" THEN 0 ELSE 1)) % 2

\* commit: the text that is hashed, state_json + str(datetime.now())
\* (a variant for comparison: the snapshot without any instant is hashed)
HashInputContentOnly(state, now) == <<[state EXCEPT !.timestamp = 0], 0>>

HashInput(state, now) == <<state, now>>

\* _generate_hash: a HashLen-digit digest of the text
GenerateHash(content) == <<ContentDigit(content[1]), content[2]>>

\* _capture_current_state
CaptureCurrentState(w) ==
    [domains |-> [i \in 1..Len(w.domains) |-> DomainToDict(w.domains[i])],
     config |-> w.config,
     nginx_configs |-> [n \in {m \in DomainNames(w.domains) : w.sites[m] # NoFile}
                          |-> w.sites[n]],
     timestamp |-> w.clock]

\* the baseline of the first commit: {"domains": [], "nginx_configs": {}}
EmptyParentState ==
    [domains |-> <<>>, config |-> None, nginx_configs |-> EmptyMap, timestamp |-> 0]

\* dict.get(name) on an artifact mapping
GetConfig(m, n) == IF n \in DOMAIN m THEN m[n] ELSE NoFile

\* {d['name']: d for d in state['domains']}: the last entry of a name wins
ByName(ds, n) == ds[CHOOSE i \in 1..Len(ds) :
                      /\ ds[i].name = n
                      /\ \A j \in (i + 1)..Len(ds) : ds[j].name # n]

\* (a variant of _calculate_diff for comparison: every name in both states counts
\* as modified, and every artifact name as changed)
CalculateDiffCountCommon(old_state, new_state) ==
    LET old_names == DomainNames(old_state.domains)
        new_names == DomainNames(new_state.domains)
    IN [domains_added |-> Cardinality(new_names \ old_names),
        domains_removed |-> Cardinality(old_names \ new_names),
        domains_modified |-> Cardinality(old_names \cap new_names),
        configs_changed |->
            Cardinality(DOMAIN old_state.nginx_configs \cup DOMAIN new_state.nginx_configs),
        settings_changed |-> IF old_state.config # new_state.config THEN 1 ELSE 0]

\* _calculate_diff
CalculateDiff(old_state, new_state) ==
    LET old_names == DomainNames(old_state.domains)
        new_names == DomainNames(new_state.domains)
        old_configs == old_state.nginx_configs
        new_configs == new_state.nginx_configs
    IN [domains_added |-> Cardinality(new_names \ old_names),
        domains_removed |-> Cardinality(old_names \ new_names),
        domains_modified |->
            Cardinality({n \in old_names \cap new_names :
                ByName(old_state.domains, n) # ByName(new_state.domains, n)}),
        configs_changed |->
            Cardinality({n \in DOMAIN old_configs \cup DOMAIN new_configs :
                GetConfig(old_configs, n) # GetConfig(new_configs, n)}),
        settings_changed |-> IF old_state.config # new_state.config THEN 1 ELSE 0]

\* list(current_state["nginx_configs"].keys()): the names in capture order
RECURSIVE ConfigNames(_, _)
ConfigNames(ds, configs) ==
    IF ds = <<>> THEN <<>>
    ELSE IF Head(ds).name \in DOMAIN configs
         THEN <<Head(ds).name>> \o ConfigNames(Tail(ds), configs)
         ELSE ConfigNames(Tail(ds), configs)

\* the first branch named n gets current_commit h (commit, lines 280-283)
RECURSIVE SetBranchHead(_, _, _)
SetBranchHead(bs, n, h) ==
    IF bs = <<>> THEN <<>>
    ELSE IF Head(bs).name = n THEN <<Branch(n, h)>> \o Tail(bs)
         ELSE <<Head(bs)>> \o SetBranchHead(Tail(bs), n, h)

\* the places where a commit can fail
CommitFaults == {"none", "capture", "commit_file", "archive", "save_commits",
                 "save_branches"}

\* (a variant of commit for comparison: the log and the branch head are written
\* before the archive)
CommitOpAppendFirst(w, tags, fault) ==
    LET current_state == CaptureCurrentState(w)
        commit_hash == GenerateHash(HashInput(current_state, w.clock))
        commits == w.commits
        parent_hash == IF commits # <<>> THEN Last(commits).hash ELSE <<>>
        parent_state == IF commits # <<>> THEN Last(commits).domains_snapshot
                        ELSE EmptyParentState
        files_changed == ConfigNames(current_state.domains, current_state.nginx_configs)
        stats == CalculateDiff(parent_state, current_state)
        commit == Commit(commit_hash, w.clock, tags, parent_hash, files_changed,
                         current_state, w.config, stats)
        w0 == [w EXCEPT !.clock = w.clock + 1]
        w1 == [w0 EXCEPT !.recs = MapPut(w.recs, commit_hash, commit)]
        w2 == [w1 EXCEPT !.objs = w.objs \cup {commit_hash}]
        w3 == IF fault = "save_commits" THEN w2
              ELSE [w2 EXCEPT !.commits = Append(commits, commit)]
        w4 == IF fault = "save_branches" THEN w3
              ELSE [w3 EXCEPT !.branches =
                       SetBranchHead(w.branches, GetCurrentBranch(w), commit_hash)]
    IN IF fault = "capture" \/ fault = "commit_file"
         THEN [w |-> w0, ok |-> FALSE, commit |-> <<>>]
       ELSE IF fault = "archive"
         THEN [w |-> [w4 EXCEPT !.objs = w.objs], ok |-> FALSE, commit |-> <<>>]
       ELSE [w |-> w4, ok |-> TRUE, commit |-> <<commit>>]

\* commit(message, description, author, tags); fault names the call that raises
CommitOp(w, tags, fault) ==
    LET current_state == CaptureCurrentState(w)
        commit_hash == GenerateHash(HashInput(current_state, w.clock))
        commits == w.commits
        parent_hash == IF commits # <<>> THEN Last(commits).hash ELSE <<>>
        parent_state == IF commits # <<>> THEN Last(commits).domains_snapshot
                        ELSE EmptyParentState
        files_changed == ConfigNames(current_state.domains, current_state.nginx_configs)
        stats == CalculateDiff(parent_state, current_state)
        commit == Commit(commit_hash, w.clock, tags, parent_hash, files_changed,
                         current_state, w.config, stats)
        w0 == [w EXCEPT !.clock = w.clock + 1]
        w1 == [w0 EXCEPT !.recs = MapPut(w.recs, commit_hash, commit)]
        w2 == [w1 EXCEPT !.objs = w.objs \cup {commit_hash}]
        w3 == IF fault = "save_commits" THEN w2
              ELSE [w2 EXCEPT !.commits = Append(commits, commit)]
        w4 == IF fault = "save_branches" THEN w3
              ELSE [w3 EXCEPT !.branches =
                       SetBranchHead(w.branches, GetCurrentBranch(w), commit_hash)]
    IN IF fault = "capture" \/ fault = "commit_file"
         THEN [w |-> w0, ok |-> FALSE, commit |-> <<>>]
       ELSE IF fault = "archive"
         THEN [w |-> w1, ok |-> FALSE, commit |-> <<>>]
       ELSE [w |-> w4, ok |-> TRUE, commit |-> <<commit>>]

\* the index of the first commit whose hash starts with ref, 0 when there is none
\* (the lookup loop of show, checkout, tag and diff)
FindCommit(commits, ref) ==
    LET hits == {i \in 1..Len(commits) : StartsWith(commits[i].hash, ref)}
    IN IF hits = {} THEN 0 ELSE CHOOSE i \in hits : \A j \in hits : i <= j

\* the index of the first branch named n, 0 when there is none
FindBranch(branches, n) ==
    LET hits == {i \in 1..Len(branches) : branches[i].name = n}
    IN IF hits = {} THEN 0 ELSE CHOOSE i \in hits : \A j \in hits : i <= j

\* log, lines 342-348: walk back from the tail, stop after the branch head
RECURSIVE WalkBack(_, _)
WalkBack(rev, current_hash) ==
    IF rev = <<>> THEN <<>>
    ELSE IF Head(rev).hash = current_hash THEN <<Head(rev)>>
         ELSE <<Head(rev)>> \o WalkBack(Tail(rev), current_hash)

\* (a variant of log's slice for comparison: the first `limit` commits)
LimitFirst(commits, limit) ==
    IF limit # 0 THEN SubSeq(commits, 1, IF limit > Len(commits) THEN Len(commits)
                                          ELSE limit)
    ELSE commits

\* commits[-limit:] if limit else commits
Limit(commits, limit) == IF limit # 0 THEN SliceFrom(commits, 0 - limit) ELSE commits

\* log(limit, branch); branch = NoBranch stands for branch=None
Log(w, limit, branch) ==
    LET commits == w.commits
        b == FindBranch(w.branches, branch)
        filtered ==
            IF branch # NoBranch /\ branch # EmptyName /\ b # 0
               /\ w.branches[b].current_commit # <<>>
            THEN Reverse(WalkBack(Reverse(commits), w.branches[b].current_commit))
            ELSE commits
    IN Limit(filtered, limit)

\* the outcomes of the restore step of checkout besides success: writing the
\* k-th artifact raises, or test_and_reload_nginx reports failure
RestoreFaults == {"none", "write1", "validation"}

FailAt(rfault) == IF rfault = "write1" THEN 1 ELSE 0

\* checkout, lines 449-455: the artifacts of names[1..k] are written
WriteSites(st, names, configs, k) ==
    [n \in DOMAIN st |->
        IF \E i \in 1..k : names[i] = n THEN configs[n] ELSE st[n]]

\* checkout(commit_hash); cfault is the fault of the safety commit, rfault that of
\* the restore
CheckoutOp(w, ref, cfault, rfault) ==
    LET i == FindCommit(w.commits, ref)
    IN IF i = 0 THEN [w |-> w, ok |-> FALSE, found |-> FALSE]
       ELSE
        LET commit == w.commits[i]
            safety == CommitOp(w, <<"auto-backup", "pre-checkout">>, cfault)
            w1 == safety.w
            state == commit.domains_snapshot
            names == ConfigNames(state.domains, state.nginx_configs)
            failAt == FailAt(rfault)
            raised == failAt # 0 /\ failAt <= Len(names)
            written == IF raised THEN failAt - 1 ELSE Len(names)
            w2 == [w1 EXCEPT
                     !.domains = [j \in 1..Len(state.domains) |->
                                     DomainFromDict(state.domains[j])],
                     !.config = state.config,
                     !.sites = WriteSites(w1.sites, names, state.nginx_configs, written)]
        IN [w |-> w2, ok |-> ~raised /\ rfault # "validation", found |-> TRUE]

\* (a variant of delete's protection for comparison: only "main" is protected)
DeleteProtectedMainOnly(w, name) == name = "main"

\* branch delete, lines 516-520: the names that may not be deleted
DeleteProtected(w, name) == name = "main" \/ name = GetCurrentBranch(w)

\* the places where branch create and branch delete can fail
BranchFaults == {"none", "save_branches"}

\* branch("create", name); fault "save_branches" makes _save_branches fail
BranchCreate(w, name, fault) ==
    IF name = EmptyName THEN [w |-> w, ok |-> FALSE, raised |-> FALSE]
    ELSE IF FindBranch(w.branches, name) # 0
      THEN [w |-> w, ok |-> FALSE, raised |-> FALSE]
    ELSE
      LET current_commit == IF w.commits # <<>> THEN Last(w.commits).hash ELSE <<>>
          branches == Append(w.branches, Branch(name, current_commit))
      IN [w |-> IF fault = "save_branches" THEN w ELSE [w EXCEPT !.branches = branches],
          ok |-> TRUE, raised |-> FALSE]

\* branch("delete", name)
BranchDelete(w, name, fault) ==
    IF name = EmptyName THEN [w |-> w, ok |-> FALSE, raised |-> FALSE]
    ELSE IF DeleteProtected(w, name)
      THEN [w |-> w, ok |-> FALSE, raised |-> FALSE]
    ELSE
      LET keep == {w.branches[i] : i \in {j \in 1..Len(w.branches) :
                                            w.branches[j].name # name}}
          branches == Filter(w.branches, keep)
      IN [w |-> IF fault = "save_branches" THEN w ELSE [w EXCEPT !.branches = branches],
          ok |-> TRUE, raised |-> FALSE]

\* (a variant of switch for comparison: the branch head is checked out without
\* testing that it is not empty)
BranchSwitchAlwaysCheckout(w, name, fault, cfault, rfault) ==
    LET b == FindBranch(w.branches, name)
    IN IF name = EmptyName \/ b = 0 THEN [w |-> w, ok |-> FALSE, raised |-> FALSE]
       ELSE IF fault = "set_head" THEN [w |-> w, ok |-> FALSE, raised |-> TRUE]
       ELSE
        LET w1 == [w EXCEPT !.head = name]
            co == CheckoutOp(w1, w.branches[b].current_commit, cfault, rfault)
        IN [w |-> co.w, ok |-> co.ok, raised |-> FALSE]

\* the places where switch itself can fail
SwitchFaults == {"none", "set_head"}

\* (a variant of switch for comparison: HEAD is written only after the checkout
\* of the branch's head has returned success)
BranchSwitchCheckoutFirst(w, name, fault, cfault, rfault) ==
    LET b == FindBranch(w.branches, name)
    IN IF name = EmptyName \/ b = 0 THEN [w |-> w, ok |-> FALSE, raised |-> FALSE]
       ELSE IF fault = "set_head" THEN [w |-> w, ok |-> FALSE, raised |-> TRUE]
       ELSE
        LET target == w.branches[b].current_commit
            co == CheckoutOp(w, target, cfault, rfault)
        IN IF target # <<>>
             THEN [w |-> IF co.ok THEN [co.w EXCEPT !.head = name] ELSE co.w,
                   ok |-> co.ok, raised |-> FALSE]
           ELSE [w |-> [w EXCEPT !.head = name], ok |-> TRUE, raised |-> FALSE]

\* branch("switch", name); fault "set_head" makes _set_current_branch raise
BranchSwitch(w, name, fault, cfault, rfault) ==
    LET b == FindBranch(w.branches, name)
    IN IF name = EmptyName \/ b = 0 THEN [w |-> w, ok |-> FALSE, raised |-> FALSE]
       ELSE IF fault = "set_head" THEN [w |-> w, ok |-> FALSE, raised |-> TRUE]
       ELSE
        LET w1 == [w EXCEPT !.head = name]
            target == w.branches[b].current_commit
            co == CheckoutOp(w1, target, cfault, rfault)
        IN IF target # <<>>
             THEN [w |-> co.w, ok |-> co.ok, raised |-> FALSE]
           ELSE [w |-> w1, ok |-> TRUE, raised |-> FALSE]

\* (a variant of tag's update for comparison: the tagged commit is taken out of
\* its place and appended anew)
TagCommitsReappend(commits, i, tags) ==
    SubSeq(commits, 1, i - 1) \o SubSeq(commits, i + 1, Len(commits))
      \o <<[commits[i] EXCEPT !.tags = tags]>>

\* (a variant of tag's update for comparison: only the tagged commit is kept)
TagCommitsOnly(commits, i, tags) == <<[commits[i] EXCEPT !.tags = tags]>>

\* tag, lines 580-581: the log with the tags of the commit at position i replaced
TagCommits(commits, i, tags) == [commits EXCEPT ![i].tags = tags]

\* the places where tag can fail
TagFaults == {"none", "save_commits", "tag_file"}

\* tag(commit_hash, tag_name, message); fault "save_commits" makes _save_commits
\* fail, fault "tag_file" makes the write of tags/<name>.json raise
TagOp(w, ref, tag_name, message, fault) ==
    LET i == FindCommit(w.commits, ref)
    IN IF i = 0 THEN [w |-> w, ok |-> FALSE, raised |-> FALSE]
       ELSE
        LET commit == w.commits[i]
            tags == IF tag_name \in SeqToSet(commit.tags) THEN commit.tags
                    ELSE Append(commit.tags, tag_name)
            commits == TagCommits(w.commits, i, tags)
            w1 == IF fault = "save_commits" THEN w ELSE [w EXCEPT !.commits = commits]
            tag_data == [name |-> tag_name, commit |-> commit.hash, message |-> message]
            w2 == [w1 EXCEPT !.tags = MapPut(w1.tags, tag_name, tag_data)]
        IN IF fault = "tag_file" THEN [w |-> w1, ok |-> FALSE, raised |-> TRUE]
           ELSE [w |-> w2, ok |-> TRUE, raised |-> FALSE]

-----------------------------------------------------------------------------
(* core.py: the operations that change the live state *)

\* (a variant of validate_port for comparison: the upper end is excluded)
ValidatePortExclusive(port) == 1 <= port /\ port < MaxPort

\* validate_port: 1 <= port <= 65535
ValidatePort(port) == 1 <= port /\ port <= MaxPort

\* port numbers a caller can pass besides those of Ports: just outside both ends
\* of the valid range
BadPorts == {0, MaxPort + 1}

\* add_domain(name, port): outcome "test_failed" is a failure after the config
\* file was generated (enable_site, test_and_reload_nginx or the certificate)
AddDomain(w, name, port, outcome) ==
    LET domain == Domain(name, port)
        w1 == [w EXCEPT !.sites[name] = RenderConfig(domain)]
    IN IF ~ValidatePort(port) THEN w
       ELSE IF name \in DomainNames(w.domains) THEN w
       ELSE IF outcome = "test_failed" THEN w1
       ELSE [w1 EXCEPT !.domains = Append(w.domains, domain)]

\* edit_domain(old_name, new_port=port): outcome "generate_failed" is a failure of
\* generate_nginx_config, after the port was set on the domain object
EditDomain(w, name, port, outcome) ==
    LET hits == {i \in 1..Len(w.domains) : w.domains[i].name = name}
        i == CHOOSE j \in hits : \A k \in hits : j <= k
        w1 == [w EXCEPT !.domains[i].port = port]
    IN IF hits = {} THEN w
       ELSE IF ~ValidatePort(port) THEN w
       ELSE IF outcome = "generate_failed" THEN w1
       ELSE [w1 EXCEPT !.sites[name] = RenderConfig(w1.domains[i])]

\* delete_domain(name): outcome "test_failed" is a failure of test_and_reload_nginx,
\* after the config file was removed
DeleteDomain(w, name, outcome) ==
    LET w1 == [w EXCEPT !.sites[name] = NoFile]
        keep == {w.domains[i] : i \in {j \in 1..Len(w.domains) :
                                          w.domains[j].name # name}}
    IN IF name \notin DomainNames(w.domains) THEN w
       ELSE IF outcome = "test_failed" THEN w1
       ELSE [w1 EXCEPT !.domains = Filter(w.domains, keep)]

-----------------------------------------------------------------------------
(* The state machine *)

Assign(next) ==
  /\ calls < MaxCalls
  /\ calls' = calls + 1
  /\ \E w \in {next} :
    /\ commitsFile' = w.commits
    /\ branchesFile' = w.branches
    /\ headFile' = w.head
    /\ commitRecs' = w.recs
    /\ objects' = w.objs
    /\ tagFiles' = w.tags
    /\ present' = w.present
    /\ domains' = w.domains
    /\ config' = w.config
    /\ sites' = w.sites
    /\ clock' = w.clock
  /\ UNCHANGED <<invocation, saved>>

\* the references a caller can pass: every prefix of a hash in the log, and one
\* that matches nothing
Refs(w) ==
    {SubSeq(w.commits[i].hash, 1, k) : i \in 1..Len(w.commits), k \in 0..HashLen}
      \cup {<<9>>}

\* the store calls that raise in a step: a fault is "none" or names the call
Raise(fs) ==
    LET n == Cardinality({i \in 1..Len(fs) : fs[i] # "none"})
    IN /\ faults + n <= MaxFaults
       /\ faults' = faults + n

\* the processes that may run commit side by side on one store directory
Procs == {"p", "q"}

\* the locals of commit, lines 235-284, and the statement the process is at
NoInvocation ==
    [pc |-> "idle", current_state |-> <<>>, commit_hash |-> <<>>,
     timestamp |-> 0, commits |-> <<>>, commit |-> <<>>, branches |-> <<>>,
     ok |-> FALSE]

\* VPSManager.vcs on a fresh manager directory: VersionControl.__init__
Init ==
    LET st == InitRepository(EmptyStore)
    IN /\ commitsFile = st.commits
       /\ branchesFile = st.branches
       /\ headFile = st.head
       /\ commitRecs = st.recs
       /\ objects = st.objs
       /\ tagFiles = st.tags
       /\ present = st.present
       /\ domains = <<>>
       /\ config = "{}"
       /\ sites = [n \in Names |-> NoFile]
       /\ clock = 1
       /\ faults = 0
       /\ calls = 0
       /\ invocation = [p \in Procs |-> NoInvocation]
       /\ saved = <<>>

\* a later construction of VersionControl on the same directory
Reinit ==
    /\ Assign(InitRepository(World))
    /\ UNCHANGED faults

DoCommit ==
    \E tags \in {<<>>}, fault \in CommitFaults :
        /\ Raise(<<fault>>)
        /\ Assign(CommitOp(World, tags, fault).w)

DoCheckout ==
    \E ref \in Refs(World), cfault \in CommitFaults, rfault \in RestoreFaults :
        /\ Raise(<<cfault, IF rfault = "write1" THEN rfault ELSE "none">>)
        /\ Assign(CheckoutOp(World, ref, cfault, rfault).w)

DoBranchCreate ==
    \E name \in BranchNames \cup {EmptyName}, fault \in BranchFaults :
        /\ Raise(<<fault>>)
        /\ Assign(BranchCreate(World, name, fault).w)

DoBranchDelete ==
    \E name \in BranchNames \cup {EmptyName}, fault \in BranchFaults :
        /\ Raise(<<fault>>)
        /\ Assign(BranchDelete(World, name, fault).w)

DoBranchSwitch ==
    \E name \in BranchNames \cup {EmptyName}, fault \in SwitchFaults,
       cfault \in CommitFaults, rfault \in RestoreFaults :
        /\ Raise(<<fault, cfault, IF rfault = "write1" THEN rfault ELSE "none">>)
        /\ Assign(BranchSwitch(World, name, fault, cfault, rfault).w)

DoTag ==
    \E ref \in Refs(World), tag_name \in TagNames, message \in TagMessages,
       fault \in TagFaults :
        /\ Raise(<<fault>>)
        /\ Assign(TagOp(World, ref, tag_name, message, fault).w)

DoAddDomain ==
    \E name \in Names, port \in Ports \cup BadPorts, outcome \in {"ok", "test_failed"} :
        /\ Assign(AddDomain(World, name, port, outcome))
        /\ UNCHANGED faults

DoEditDomain ==
    \E name \in Names, port \in Ports \cup BadPorts, outcome \in {"ok", "generate_failed"} :
        /\ Assign(EditDomain(World, name, port, outcome))
        /\ UNCHANGED faults

DoDeleteDomain ==
    \E name \in Names, outcome \in {"ok", "test_failed"} :
        /\ Assign(DeleteDomain(World, name, outcome))
        /\ UNCHANGED faults

\* complete_setup
DoCompleteSetup ==
    /\ Assign([World EXCEPT !.config = "{setup_completed}"])
    /\ UNCHANGED faults

Next ==
    \/ Reinit
    \/ DoCommit
    \/ DoCheckout
    \/ DoBranchCreate
    \/ DoBranchDelete
    \/ DoBranchSwitch
    \/ DoTag
    \/ DoAddDomain
    \/ DoEditDomain
    \/ DoDeleteDomain
    \/ DoCompleteSetup

Spec == Init /\ [][Next]_vars

-----------------------------------------------------------------------------
(* Two processes, each running commit once on the same store directory.  A   *)
(* step is one whole-file read or write of commit, lines 235-284; no store   *)
(* call fails.                                                               *)

\* the store and the live state of a fresh manager directory
FreshWorld ==
    LET st == InitRepository(EmptyStore)
    IN [commits |-> st.commits, branches |-> st.branches, head |-> st.head,
        recs |-> st.recs, objs |-> st.objs, tags |-> st.tags,
        present |-> st.present, domains |-> <<>>, config |-> "{}",
        sites |-> [n \in Names |-> NoFile], clock |-> 1]

\* the states the two invocations start from: a fresh directory, with or
\* without a domain, before or after a first commit
StartWorlds ==
    LET listed == {FreshWorld} \cup
                  {AddDomain(FreshWorld, n, p, "ok") : n \in Names, p \in Ports}
    IN listed \cup {CommitOp(w, <<>>, "none").w : w \in listed}

\* (a variant of the write of commits.json for comparison: the commit is
\* appended to the log as it is on disk at the time of the write)
SavedLogMerged(loaded, commit, current) == Append(current, commit)

\* commit, lines 273-275: the log read at line 240, with the commit appended,
\* replaces commits.json whatever commits.json holds by then
SavedLog(loaded, commit, current) == Append(loaded, commit)

\* commit, lines 240-262: the Commit object built from the log just read
MakeCommit(inv, commits, cfg) ==
    LET parent_hash == IF commits # <<>> THEN Last(commits).hash ELSE <<>>
        parent_state == IF commits # <<>> THEN Last(commits).domains_snapshot
                        ELSE EmptyParentState
        files_changed == ConfigNames(inv.current_state.domains,
                                     inv.current_state.nginx_configs)
        stats == CalculateDiff(parent_state, inv.current_state)
    IN Commit(inv.commit_hash, inv.timestamp, <<>>, parent_hash, files_changed,
              inv.current_state, cfg, stats)

InitConc ==
    \E w \in StartWorlds :
       /\ commitsFile = w.commits
       /\ branchesFile = w.branches
       /\ headFile = w.head
       /\ commitRecs = w.recs
       /\ objects = w.objs
       /\ tagFiles = w.tags
       /\ present = w.present
       /\ domains = w.domains
       /\ config = w.config
       /\ sites = w.sites
       /\ clock = w.clock
       /\ faults = 0
       /\ calls = 0
       /\ invocation = [p \in Procs |-> [NoInvocation EXCEPT !.pc = "capture"]]
       /\ saved = <<>>

\* lines 235-237: the state capture and the hash
ConcCapture(p) ==
    /\ invocation[p].pc = "capture"
    /\ invocation' = [invocation EXCEPT ![p] =
          [@ EXCEPT !.pc = "load_commits",
                    !.current_state = CaptureCurrentState(World),
                    !.commit_hash = GenerateHash(
                        HashInput(CaptureCurrentState(World), clock)),
                    !.timestamp = clock]]
    /\ clock' = clock + 1
    /\ UNCHANGED <<commitsFile, branchesFile, headFile, commitRecs, objects,
                   tagFiles, present, domains, config, sites, faults, calls,
                   saved>>

\* lines 240-262: the read of commits.json and the Commit object
ConcLoadCommits(p) ==
    /\ invocation[p].pc = "load_commits"
    /\ invocation' = [invocation EXCEPT ![p] =
          [@ EXCEPT !.pc = "commit_file",
                    !.commits = commitsFile,
                    !.commit = <<MakeCommit(invocation[p], commitsFile, config)>>]]
    /\ UNCHANGED <<commitsFile, branchesFile, headFile, commitRecs, objects,
                   tagFiles, present, domains, config, sites, clock, faults,
                   calls, saved>>

\* lines 264-267: the write of commits/<hash>.json
ConcCommitFile(p) ==
    /\ invocation[p].pc = "commit_file"
    /\ commitRecs' = MapPut(commitRecs, invocation[p].commit_hash,
                            invocation[p].commit[1])
    /\ invocation' = [invocation EXCEPT ![p].pc = "archive"]
    /\ UNCHANGED <<commitsFile, branchesFile, headFile, objects, tagFiles,
                   present, domains, config, sites, clock, faults, calls, saved>>

\* lines 269-271: the write of objects/<hash>.tar.gz
ConcArchive(p) ==
    /\ invocation[p].pc = "archive"
    /\ objects' = objects \cup {invocation[p].commit_hash}
    /\ invocation' = [invocation EXCEPT ![p].pc = "save_commits"]
    /\ UNCHANGED <<commitsFile, branchesFile, headFile, commitRecs, tagFiles,
                   present, domains, config, sites, clock, faults, calls, saved>>

\* lines 273-275: the write of commits.json
ConcSaveCommits(p) ==
    /\ invocation[p].pc = "save_commits"
    /\ commitsFile' = SavedLog(invocation[p].commits, invocation[p].commit[1],
                               commitsFile)
    /\ saved' = Append(saved, p)
    /\ invocation' = [invocation EXCEPT ![p].pc = "load_branches"]
    /\ UNCHANGED <<branchesFile, headFile, commitRecs, objects, tagFiles,
                   present, domains, config, sites, clock, faults, calls>>

\* lines 278-279: the read of branches.json
ConcLoadBranches(p) ==
    /\ invocation[p].pc = "load_branches"
    /\ invocation' = [invocation EXCEPT ![p] =
          [@ EXCEPT !.pc = "save_branches", !.branches = branchesFile]]
    /\ UNCHANGED <<commitsFile, branchesFile, headFile, commitRecs, objects,
                   tagFiles, present, domains, config, sites, clock, faults,
                   calls, saved>>

\* lines 279-287: the read of HEAD, the write of branches.json and the return
ConcSaveBranches(p) ==
    /\ invocation[p].pc = "save_branches"
    /\ branchesFile' = SetBranchHead(invocation[p].branches,
                                     GetCurrentBranch(World),
                                     invocation[p].commit_hash)
    /\ invocation' = [invocation EXCEPT ![p] =
          [@ EXCEPT !.pc = "done", !.ok = TRUE]]
    /\ UNCHANGED <<commitsFile, headFile, commitRecs, objects, tagFiles,
                   present, domains, config, sites, clock, faults, calls, saved>>

NextConc ==
    \E p \in Procs :
        \/ ConcCapture(p)
        \/ ConcLoadCommits(p)
        \/ ConcCommitFile(p)
        \/ ConcArchive(p)
        \/ ConcSaveCommits(p)
        \/ ConcLoadBranches(p)
        \/ ConcSaveBranches(p)

SpecConc == InitConc /\ [][NextConc]_vars

-----------------------------------------------------------------------------
(* Vocabulary of the properties *)

SafetyTags == <<"auto-backup", "pre-checkout">>

\* a snapshot without the instant of its capture
LiveOf(state) ==
    [domains |-> state.domains, config |-> state.config,
     nginx_configs |-> state.nginx_configs]

BranchNamesOf(bs) == {bs[i].name : i \in 1..Len(bs)}

\* the last n elements of s, for 0 <= n <= Len(s)
LastN(s, n) == SubSeq(s, Len(s) - n + 1, Len(s))

\* the commit at position i of the log was recorded by the call that led from w
\* to w2 as a safety commit of the live state of w
IsSafetyCommitOf(w, w2) ==
    /\ Len(w2.commits) = Len(w.commits) + 1
    /\ Last(w2.commits).tags = SafetyTags
    /\ LiveOf(Last(w2.commits).domains_snapshot) = LiveOf(CaptureCurrentState(w))

-----------------------------------------------------------------------------
(* C1 to C10 *)

\* C1: after every commit call that returns success, the returned commit is the
\* last element of the commit log and the current_commit of the branch named by
\* HEAD equals the returned commit's hash.
C1_CommitSuccessIsLogTailAndHead ==
    \A fault \in CommitFaults :
        LET r == CommitOp(World, <<>>, fault)
            b == FindBranch(r.w.branches, GetCurrentBranch(r.w))
        IN r.ok =>
            /\ r.w.commits # <<>>
            /\ Last(r.w.commits) = r.commit[1]
            /\ b # 0
            /\ r.w.branches[b].current_commit = r.commit[1].hash

\* C2: for every checkout(ref) whose ref resolves to a commit, a safety commit
\* tagged auto-backup and pre-checkout, whose snapshot is the live state as it was
\* when checkout was called, is appended to the commit log; so whenever checkout
\* has overwritten live state, the pre-checkout live state is the snapshot of a
\* commit in the log.
C2_SafetyCommitBeforeOverwrite ==
    \A ref \in Refs(World), cfault \in CommitFaults, rfault \in RestoreFaults :
        LET r == CheckoutOp(World, ref, cfault, rfault)
        IN r.found =>
            /\ IsSafetyCommitOf(World, r.w)
            /\ (<<r.w.domains, r.w.config, r.w.sites>> # <<domains, config, sites>>
                  => \E i \in 1..Len(r.w.commits) :
                        LiveOf(r.w.commits[i].domains_snapshot)
                          = LiveOf(CaptureCurrentState(World)))

\* C3: for every commit c in the log, when checkout(c) returns success, a capture
\* of the live state taken immediately afterwards has the same entity list and
\* the same artifact mapping as c's stored snapshot.
C3_RestoreFidelity ==
    \A i \in 1..Len(commitsFile), cfault \in CommitFaults, rfault \in RestoreFaults :
        LET c == commitsFile[i]
            r == CheckoutOp(World, c.hash, cfault, rfault)
            after == CaptureCurrentState(r.w)
        IN r.ok =>
            /\ after.domains = c.domains_snapshot.domains
            /\ after.nginx_configs = c.domains_snapshot.nginx_configs

\* C4: when the post-restore validation fails, checkout returns failure, the live
\* entities, settings and artifacts stay as overwritten from the target snapshot,
\* and the safety commit holding the pre-checkout state is the last element of
\* the commit log.
C4_ValidationFailureLeavesRestoredState ==
    \A i \in 1..Len(commitsFile), cfault \in CommitFaults :
        LET c == commitsFile[i]
            state == c.domains_snapshot
            r == CheckoutOp(World, c.hash, cfault, "validation")
        IN /\ ~r.ok
           /\ r.w.domains = [j \in 1..Len(state.domains) |->
                                DomainFromDict(state.domains[j])]
           /\ r.w.config = state.config
           /\ \A n \in DOMAIN state.nginx_configs : r.w.sites[n] = state.nginx_configs[n]
           /\ IsSafetyCommitOf(World, r.w)

\* C5: branch delete(name) fails and leaves the branch list unchanged when name is
\* "main" or the branch named by HEAD; for every other existing branch name it
\* succeeds and removes exactly that branch, leaving every other branch and HEAD
\* unchanged.
C5_BranchDelete ==
    \A name \in BranchNames, fault \in BranchFaults :
        LET r == BranchDelete(World, name, fault)
        IN IF name = "main" \/ name = headFile
             THEN ~r.ok /\ r.w.branches = branchesFile
           ELSE name \in BranchNamesOf(branchesFile) =>
                /\ r.ok
                /\ r.w.head = headFile
                /\ BranchNamesOf(r.w.branches) = BranchNamesOf(branchesFile) \ {name}
                /\ \A k \in 1..Len(branchesFile) :
                      branchesFile[k].name # name =>
                          \E m \in 1..Len(r.w.branches) : r.w.branches[m] = branchesFile[k]

\* C6: in every reachable state a branch named "main" exists in the branch list
\* and the branch named by HEAD exists in the branch list.
C6_MainAndHeadBranchExist ==
    /\ "main" \in BranchNamesOf(branchesFile)
    /\ headFile \in BranchNamesOf(branchesFile)

\* C6 witness: HEAD names a branch other than main, and deleting it is refused
C6_Witness ==
    /\ headFile = "dev"
    /\ "dev" \in BranchNamesOf(branchesFile)
    /\ ~BranchDelete(World, "dev", "none").ok
    /\ ~BranchDelete(World, "main", "none").ok

\* C7: in every reachable state the hashes of the commits in the log are pairwise
\* distinct, including when two commits captured identical snapshots.
C7_HashesDistinct ==
    \A i, j \in 1..Len(commitsFile) :
        i # j => commitsFile[i].hash # commitsFile[j].hash

\* C7 witness: two commits of one and the same live state are in the log
C7_Witness ==
    \E i, j \in 1..Len(commitsFile) :
        /\ i # j
        /\ LiveOf(commitsFile[i].domains_snapshot) = LiveOf(commitsFile[j].domains_snapshot)
        /\ commitsFile[i].hash # commitsFile[j].hash

C9_BranchLogIsPrefix ==
    \A b \in 1..Len(branchesFile), i \in 1..Len(commitsFile), limit \in 1..MaxLimit :
        branchesFile[b].current_commit = commitsFile[i].hash =>
            LET prefix == SubSeq(commitsFile, 1, i)
                n == IF limit > i THEN i ELSE limit
            IN Log(World, limit, branchesFile[b].name) = LastN(prefix, n)

\* C10: re-running repository initialization in any reachable state leaves the
\* commit log, the branch list, HEAD and the tag records unchanged.
C10_InitIdempotent ==
    LET st == InitRepository(World)
    IN /\ st.commits = commitsFile
       /\ st.branches = branchesFile
       /\ st.head = headFile
       /\ st.tags = tagFiles
       /\ st.recs = commitRecs

\* C10 witness: a store with commits, a second branch that is active, and a tag
C10_Witness ==
    /\ Len(commitsFile) >= 2
    /\ Len(branchesFile) >= 2
    /\ headFile = "dev"
    /\ DOMAIN tagFiles # {}

-----------------------------------------------------------------------------
(* C11 to C20 *)

\* the snapshots the store holds or can take in a state
Snapshots ==
    {commitsFile[i].domains_snapshot : i \in 1..Len(commitsFile)}
      \cup {CaptureCurrentState(World), EmptyParentState}

ZeroStats ==
    [domains_added |-> 0, domains_removed |-> 0, domains_modified |-> 0,
     configs_changed |-> 0, settings_changed |-> 0]

\* C11: for every snapshot S, the diff statistics of S against itself have
\* domains_added, domains_removed, domains_modified, configs_changed and
\* settings_changed all equal to 0.
C11_DiffSelfIsEmpty == \A S \in Snapshots : CalculateDiff(S, S) = ZeroStats

\* C11 witness: a commit of a domain with its artifact, whose statistics against
\* its parent are not zero and whose statistics against itself are
C11_Witness ==
    \E i \in 1..Len(commitsFile) :
        LET S == commitsFile[i].domains_snapshot
        IN /\ S.domains # <<>>
           /\ DOMAIN S.nginx_configs # {}
           /\ commitsFile[i].stats.domains_added > 0
           /\ CalculateDiff(S, S) = ZeroStats

\* everything of a commit but its tag set
Untagged(c) == [c EXCEPT !.tags = <<>>]

\* C12: tag(ref, name, message) changes nothing in the commit log except possibly
\* adding name to the tag set of the resolved commit: the hash, parent, snapshot
\* and stats of every commit, the order and length of the log, the branch list
\* and HEAD are the same before and after the call.
C12_TagFrame ==
    \A ref \in Refs(World), name \in TagNames, message \in TagMessages,
       fault \in TagFaults :
        \A after \in {TagOp(World, ref, name, message, fault).w} :
            LET i == FindCommit(commitsFile, ref)
            IN /\ Len(after.commits) = Len(commitsFile)
               /\ \A k \in 1..Len(commitsFile) :
                     /\ Untagged(after.commits[k]) = Untagged(commitsFile[k])
                     /\ \/ after.commits[k].tags = commitsFile[k].tags
                        \/ /\ k = i
                           /\ after.commits[k].tags = Append(commitsFile[k].tags, name)
               /\ after.branches = branchesFile
               /\ after.head = headFile

\* C12 witness: a log of two commits and two branches in which a tag call adds
\* the name to the tag set of the first commit
C12_Witness ==
    /\ Len(commitsFile) >= 2
    /\ Len(branchesFile) >= 2
    /\ \E name \in TagNames :
          LET r == TagOp(World, commitsFile[1].hash, name, "m1", "none")
          IN /\ r.ok
             /\ r.w.commits[1].tags = Append(commitsFile[1].tags, name)

\* C13: once a tag record for name T has been created pointing at commit c, no
\* later operation, tag(c2, T, m) with a different commit c2 included, changes the
\* commit that T's record points at.
C13_TagRecordImmutable ==
    [][\A T \in DOMAIN tagFiles :
          /\ T \in DOMAIN tagFiles'
          /\ tagFiles'[T].commit = tagFiles[T].commit]_vars

\* how often x occurs in the sequence s
Count(s, x) == Cardinality({k \in 1..Len(s) : s[k] = x})

\* C14: calling tag(c, T, m1) and then tag(c, T, m2) on the same commit, both
\* returning success, leaves c's tag set equal to what it was after the first
\* call, with T exactly once in it, while the tag record for T holds m2.
C14_TagTwice ==
    \A i \in 1..Len(commitsFile), T \in TagNames, m1, m2 \in TagMessages,
       f1, f2 \in TagFaults :
        LET c == commitsFile[i]
            r1 == TagOp(World, c.hash, T, m1, f1)
            r2 == TagOp(r1.w, c.hash, T, m2, f2)
        IN (r1.ok /\ r2.ok) =>
            /\ r2.w.commits[i].tags = r1.w.commits[i].tags
            /\ Count(r2.w.commits[i].tags, T) = 1
            /\ T \in DOMAIN r2.w.tags
            /\ r2.w.tags[T].message = m2

\* the position of the commit that ref names: the commit whose hash is ref, or the
\* only commit whose hash has ref as a prefix; 0 when there is no such commit
ResolveUnambiguous(commits, ref) ==
    LET exact == {i \in 1..Len(commits) : commits[i].hash = ref}
        prefixed == {i \in 1..Len(commits) : StartsWith(commits[i].hash, ref)}
    IN IF exact # {} THEN CHOOSE i \in exact : TRUE
       ELSE IF Cardinality(prefixed) = 1 THEN CHOOSE i \in prefixed : TRUE
       ELSE 0

\* C15: tag(ref, name, message) resolves ref to the commit whose hash equals ref,
\* or to the single commit whose hash has ref as a prefix; when no commit matches,
\* or when ref is a prefix of the hashes of more than one commit, it returns
\* failure and changes neither any commit's tag set nor any tag record.
C15_TagResolution ==
    \A ref \in Refs(World), name \in TagNames, message \in TagMessages,
       fault \in TagFaults :
        LET r == TagOp(World, ref, name, message, fault)
            i == ResolveUnambiguous(commitsFile, ref)
        IN IF i = 0
             THEN /\ ~r.ok
                  /\ r.w.commits = commitsFile
                  /\ r.w.tags = tagFiles
           ELSE r.ok => r.w.tags[name].commit = commitsFile[i].hash

\* the hash of the last commit of the log, empty when the log is empty
TailHash(commits) == IF commits # <<>> THEN Last(commits).hash ELSE <<>>

\* C16: branch create(name) fails and leaves the branch list unchanged when a
\* branch with that name already exists; otherwise, when it returns success, it
\* has added exactly one branch whose current_commit is the hash of the last
\* commit in the log (empty when the log is empty) and has left HEAD and every
\* other branch unchanged; hence branch names are pairwise distinct in every
\* reachable state.
C16_BranchCreate ==
    /\ \A name \in BranchNames, fault \in BranchFaults :
          LET r == BranchCreate(World, name, fault)
          IN IF name \in BranchNamesOf(branchesFile)
               THEN ~r.ok /\ r.w.branches = branchesFile
             ELSE IF r.ok
               THEN /\ r.w.branches
                         = Append(branchesFile, Branch(name, TailHash(commitsFile)))
                    /\ r.w.head = headFile
             ELSE r.w.branches = branchesFile
    /\ \A i, j \in 1..Len(branchesFile) :
          i # j => branchesFile[i].name # branchesFile[j].name

\* the live state: entities, settings and the artifacts of the entities
Live(w) == LiveOf(CaptureCurrentState(w))

\* C17: branch switch(name) with a name that is not in the branch list fails and
\* leaves HEAD, the branch list, the commit log and the live state unchanged; a
\* switch(name) that returns success leaves HEAD equal to name and the live state
\* equal to the snapshot of the commit that was name's recorded head when switch
\* was called (live state unchanged when that head was empty).
C17_BranchSwitch ==
    \A name \in BranchNames, fault \in SwitchFaults,
       cfault \in CommitFaults, rfault \in RestoreFaults :
        LET r == BranchSwitch(World, name, fault, cfault, rfault)
            b == FindBranch(branchesFile, name)
        IN IF b = 0
             THEN /\ ~r.ok
                  /\ r.w.head = headFile
                  /\ r.w.branches = branchesFile
                  /\ r.w.commits = commitsFile
                  /\ Live(r.w) = Live(World)
           ELSE r.ok =>
                /\ r.w.head = name
                /\ IF branchesFile[b].current_commit = <<>>
                     THEN Live(r.w) = Live(World)
                   ELSE LET i == FindCommit(commitsFile, branchesFile[b].current_commit)
                        IN Live(r.w) = LiveOf(commitsFile[i].domains_snapshot)

C19_WriteFailureIsReported ==
    /\ \A fault \in {"save_commits", "save_branches"} :
          ~CommitOp(World, <<>>, fault).ok
    /\ \A ref \in Refs(World), name \in TagNames, message \in TagMessages,
          fault \in TagFaults \ {"none"} :
          LET r == TagOp(World, ref, name, message, fault)
          IN FindCommit(commitsFile, ref) # 0 => ~r.ok /\ ~r.raised
    /\ \A name \in BranchNames :
          LET r == BranchCreate(World, name, "save_branches")
          IN name \notin BranchNamesOf(branchesFile) => ~r.ok /\ ~r.raised
    /\ \A name \in BranchNames :
          LET r == BranchDelete(World, name, "save_branches")
          IN ~DeleteProtected(World, name) => ~r.ok /\ ~r.raised

\* C20: when commit returns failure (the state capture, the commit-record write
\* or the archive write failed), the commit log and the current_commit of every
\* branch are the same as before the call.
C20_FailedCommitFrame ==
    \A tags \in {<<>>, SafetyTags}, fault \in CommitFaults :
        LET r == CommitOp(World, tags, fault)
        IN ~r.ok =>
            /\ r.w.commits = commitsFile
            /\ r.w.branches = branchesFile

\* C20 witness: after a commit, a second commit failed at its archive: its record
\* is in the store, and neither the log nor a branch head names it
C20_Witness ==
    /\ commitsFile # <<>>
    /\ \E h \in DOMAIN commitRecs :
          /\ h \notin objects
          /\ \A i \in 1..Len(commitsFile) : commitsFile[i].hash # h
          /\ \A b \in 1..Len(branchesFile) : branchesFile[b].current_commit # h
    /\ \E fault \in CommitFaults : ~CommitOp(World, <<>>, fault).ok

-----------------------------------------------------------------------------
(* C21 to C30 *)

\* integer ports on both sides of both ends of the valid range, and between them;
\* the ports of the listed domains are probed as well
PortProbe == {0 - 2, 0 - 1, 0, 1, 2, 80, 8080, 65534, 65535, 65536, 65537}

\* C21: for every integer port, validate_port(port) returns true exactly when
\* 1 <= port <= 65535.
C21_ValidatePort ==
    \A port \in PortProbe \cup {domains[i].port : i \in 1..Len(domains)} :
        ValidatePort(port) <=> (1 <= port /\ port <= 65535)

\* C21 witness: a domain on port 65535 was accepted, and add_domain and
\* edit_domain refuse the ports 0 and 65536
C21_Witness ==
    /\ \E i \in 1..Len(domains) : domains[i].port = 65535
    /\ \A name \in Names, port \in {0, 65536} :
          /\ AddDomain(World, name, port, "ok") = World
          /\ EditDomain(World, name, port, "ok") = World

\* C22: checkout(ref) never sets any branch's current_commit to the target
\* commit's hash: after checkout returns, every branch other than the one named by
\* HEAD has the same current_commit as before the call, and the HEAD branch's
\* current_commit is the hash of the safety commit that checkout appended to
\* the log.
C22_CheckoutMovesNoHeadToTarget ==
    \A ref \in Refs(World), cfault \in CommitFaults, rfault \in RestoreFaults :
        \A r \in {CheckoutOp(World, ref, cfault, rfault)} :
            r.found =>
              LET target == commitsFile[FindCommit(commitsFile, ref)]
              IN /\ Len(r.w.branches) = Len(branchesFile)
                 /\ \A b \in 1..Len(branchesFile) :
                       /\ r.w.branches[b].name = branchesFile[b].name
                       /\ r.w.branches[b].current_commit = target.hash
                            => branchesFile[b].current_commit = target.hash
                       /\ branchesFile[b].name # headFile
                            => r.w.branches[b] = branchesFile[b]
                       /\ (branchesFile[b].name = headFile
                             /\ Len(r.w.commits) = Len(commitsFile) + 1)
                            => r.w.branches[b].current_commit = Last(r.w.commits).hash

\* C23: for every commit, its stats equal the diff statistics of B against the
\* captured state, where B is the stored snapshot of the commit named by the HEAD
\* branch's current_commit at the time of the call (the empty snapshot when that
\* head is empty), also when the HEAD branch's head is not the last commit of
\* the log.
C23_StatsBaselineIsBranchHead ==
    \A fault \in CommitFaults :
        \A r \in {CommitOp(World, <<>>, fault)} :
            LET b == FindBranch(branchesFile, headFile)
                head == branchesFile[b].current_commit
                i == FindCommit(commitsFile, head)
                B == IF head = <<>> THEN EmptyParentState
                     ELSE commitsFile[i].domains_snapshot
            IN (r.ok /\ b # 0 /\ (head = <<>> \/ i # 0)) =>
                  r.commit[1].stats = CalculateDiff(B, CaptureCurrentState(World))

\* C24: in every reachable state, the first commit of the log has no parent and
\* every other commit's parent equals the hash of the commit immediately before
\* it in the log.
C24_ParentChain ==
    \A i \in 1..Len(commitsFile) :
        commitsFile[i].parent = IF i = 1 THEN <<>> ELSE commitsFile[i - 1].hash

\* C24 witness: a log of three commits, one of them the safety commit of a
\* checkout, and the record of a commit that failed and is not in the log
C24_Witness ==
    /\ Len(commitsFile) >= 3
    /\ \E i \in 1..Len(commitsFile) : commitsFile[i].tags = SafetyTags
    /\ \E h \in DOMAIN commitRecs :
          \A i \in 1..Len(commitsFile) : commitsFile[i].hash # h

\* C25: across any sequence of commit, checkout, tag and branch operations, the
\* commit log only grows at its tail: no commit is ever removed or reordered, and
\* no field of an existing commit other than its tag set ever changes.
C25_LogAppendOnly ==
    [][/\ Len(commitsFile') >= Len(commitsFile)
       /\ \A i \in 1..Len(commitsFile) :
             Untagged(commitsFile'[i]) = Untagged(commitsFile[i])]_vars

\* C25 witness: a log of two commits whose first commit was tagged after the
\* second was appended
C25_Witness ==
    /\ Len(commitsFile) >= 2
    /\ commitsFile[1].tags # <<>>
    /\ commitsFile[1].hash \in DOMAIN commitRecs
    /\ commitRecs[commitsFile[1].hash].tags = <<>>
    /\ commitsFile[2].parent = commitsFile[1].hash

\* C26: in every reachable state, for every commit in the commit log the
\* individual record commits/<hash>.json exists and equals the log entry in every
\* field, including the tag set after the commit has been tagged.
C26_RecordEqualsLogEntry ==
    \A i \in 1..Len(commitsFile) :
        /\ commitsFile[i].hash \in DOMAIN commitRecs
        /\ commitRecs[commitsFile[i].hash] = commitsFile[i]

\* whether the commit the invocation of p built is in the log on disk
InLog(p) ==
    \E i \in 1..Len(commitsFile) :
        commitsFile[i].hash = invocation[p].commit_hash

\* C27: two commit invocations that run concurrently, interleaved at whole-file
\* reads and writes of the store, can both report success while the final log
\* holds only one of the two commits.  Once both have returned, both have
\* reported success, and the commit of a process is in the final log exactly
\* when that process wrote commits.json last or the other process had read
\* commits.json after it was written; so the commit of whoever wrote first is
\* lost whenever the other had read the log before that write.
C27_LostUpdate ==
    (\A p \in Procs : invocation[p].pc = "done") =>
        \A p \in Procs : \A q \in Procs \ {p} :
            /\ invocation[p].ok
            /\ InLog(p) <=>
                  \/ Last(saved) = p
                  \/ \E i \in 1..Len(invocation[q].commits) :
                        invocation[q].commits[i].hash = invocation[p].commit_hash

\* C27 witness: both invocations have returned success and the log holds the
\* commit of one of them only
C27_Witness ==
    /\ \A p \in Procs : invocation[p].pc = "done" /\ invocation[p].ok
    /\ \E p \in Procs : \E q \in Procs \ {p} : InLog(p) /\ ~InLog(q)

\* C28: in every reachable state, a commit cut short between two of its file
\* writes included, every branch's current_commit is either empty or the hash
\* of a commit present in the commit log.
C28_NoDanglingBranchHead ==
    \A i \in 1..Len(branchesFile) :
        \/ branchesFile[i].current_commit = <<>>
        \/ \E j \in 1..Len(commitsFile) :
              commitsFile[j].hash = branchesFile[i].current_commit

\* C29: in every state reached while no store call has failed, the
\* current_commit of the branch named by HEAD is either empty or the hash of the
\* last commit in the log, so the last commit status() reports and the active
\* branch's head never differ.
C29_ActiveHeadIsLogTail ==
    faults = 0 =>
        \A i \in 1..Len(branchesFile) :
            branchesFile[i].name = GetCurrentBranch(World) =>
                \/ branchesFile[i].current_commit = <<>>
                \/ branchesFile[i].current_commit = TailHash(commitsFile)

\* C29 witness: no store call has failed, HEAD names dev after a switch, the
\* log holds at least three commits and dev's head is the last of them while
\* main's head is an earlier commit
C29_Witness ==
    /\ faults = 0
    /\ GetCurrentBranch(World) = "dev"
    /\ Len(commitsFile) >= 3
    /\ \E i, j \in 1..Len(branchesFile) :
          /\ branchesFile[i].name = "dev"
          /\ branchesFile[i].current_commit = TailHash(commitsFile)
          /\ branchesFile[j].name = "main"
          /\ branchesFile[j].current_commit # <<>>
          /\ branchesFile[j].current_commit # TailHash(commitsFile)

====
